---- MODULE Spec2Model ----
(***************************************************************************)
(* The PySpin example scripts as one state machine.  A run executes one    *)
(* script (chosen in Init) from main() to its end.  The Spinnaker SDK is   *)
(* the environment: every SDK call either returns or raises                *)
(* SpinnakerException, every node is available / writable or not, every   *)
(* retrieved image is complete or incomplete.  The scripts' own code (the  *)
(* try/except blocks, the early returns, the loops, the order of the SDK   *)
(* calls) is what the actions translate.                                   *)
(***************************************************************************)
EXTENDS Integers, Sequences, FiniteSets, TLC

\* ------------------------------------------------------------------ bounds
MaxCameras == 2        \* cameras the system may detect (0..MaxCameras)
MaxIfaces == 2         \* interfaces the system may detect (0..MaxIfaces)
MaxFaults == 2         \* SDK calls that may raise during one run
NUM_IMAGES == 2        \* loop count of the acquisition loops (10 resp. 5 in the scripts)
MaxDeliveries == 3     \* OnDeviceEvent calls made on one DeviceEventHandler

Cams == 0 .. (MaxCameras - 1)
Ifaces == 0 .. (MaxIfaces - 1)
NoCam == -1
NoHandler == -1

\* ----------------------------------------------------------------- scripts
TriggerScripts == {"Trigger", "Trigger_QuickSpin"}
FormatScripts == {"ImageFormatControl", "ImageFormatControl_QuickSpin"}
\* run_single_camera calls cam.Init() first and print_device_info(cam) after it
QuickSpinScripts == {"ImageFormatControl_QuickSpin", "Exposure_QuickSpin"}
\* scripts whose acquire_images is the GetNextImage loop
AcqScripts ==
  TriggerScripts \cup FormatScripts
    \cup {"Exposure_QuickSpin", "DeviceEvents", "SaveToAvi", "ImageChannelStatistics"}
\* scripts whose main retrieves the interface list
EnumScripts == {"Enumeration", "Enumeration_QuickSpin"}
IfaceScripts == EnumScripts \cup {"NodeMapInfo_QuickSpin", "EnumerationEvents"}
\* scripts whose main is the loop "for i in range(num_cameras): run_single_camera(cam)"
CameraLoopScripts == AcqScripts \cup {"NodeMapCallback", "ImageEvents", "NodeMapInfo"}
Scripts == CameraLoopScripts \cup IfaceScripts \cup {"Logging", "take_a_photo"}

VARIABLES
  script,        \* the example being run
  numCameras,    \* cam_list.GetSize()
  numIfaces,     \* interface_list.GetSize()
  keepFiles,     \* the run records the filenames of its Save() calls (files, overwritten)
  pc,            \* position of the main thread
  camIdx,        \* main's loop variable i (the camera being run)
  mainResult,    \* main's local "result"
  mainRet,       \* what main returned: "none" while running, then "True"/"False"/"None"
  rscRets,       \* per camera: what run_single_camera returned ("none" before)
  uncaught,      \* the exception that left main ("none" if none)
  rscResult,     \* run_single_camera's local "result"
  acqResult,     \* acquire_images' local "result"
  imgIdx,        \* acquire_images' loop variable i
  imgComplete,   \* not image_result.IsIncomplete() of the image just retrieved
  serial,        \* acquire_images' local device_serial_number: "unbound", "" or "sn"
  acqRet,        \* what acquire_images returned for the current camera ("none" before)
  figBound,      \* ImageChannelStatistics: the local "fig" of the image loop is bound
  camInit,       \* per camera: initialised (Init succeeded, DeInit not yet)
  camStreaming,  \* per camera: acquiring (BeginAcquisition succeeded, EndAcquisition not yet)
  unreleased,    \* per camera: images retrieved with GetNextImage on which Release()
                 \* was not called yet
  releaseCount,  \* number of system.ReleaseInstance() calls that returned
  events,        \* history: the SDK calls made on the system and on the current camera,
                 \* <<call, camera, outcome>>
  lastCall,      \* history: the last SDK call with the state it was made in
  faults,        \* SDK calls that raised so far
  camEvents,     \* per camera: the script's event handler is registered on it
  nodeCallbacks, \* per camera: the node callbacks registered on its nodemap on which
                 \* DeregisterNodeCallback was not called yet
  image_count,   \* ImageEventHandler._image_count of the current handler
  ifIdx,         \* main's loop variable i over the interfaces
  sysHandler,    \* an event handler is registered on the system
  ifaceHandlers, \* per interface: the handler registered on it (NoHandler: none)
  interface_events, \* EnumerationEvents: main's list of interface event handlers
  saved,         \* history: the frame indices i whose file Save() wrote during the
                 \* current acquire_images call (ImageEvents: by the current handler)
  files,         \* history (if keepFiles): the filenames Save() was called with and
                 \* returned, over the run
  overwritten,   \* history (if keepFiles): a Save() call used a filename already in files
  getCalls,      \* history: cam.GetNextImage() calls of the current acquire_images call
  fmtAccess,     \* configure_custom_image_settings: per node, its access mode is RW
  fmtInc,        \* configure_custom_image_settings: Width / Height GetInc() != 0
  fmtWrites,     \* per script: the node writes its configure_custom_image_settings made
  fmtRet,        \* per script: what configure_custom_image_settings returned ("none" before)
  event_name,    \* DeviceEventHandler.event_name
  count,         \* DeviceEventHandler.count
  delivered      \* history: the event names OnDeviceEvent was called with, in order

envVars == <<script, numCameras, numIfaces, keepFiles>>
ctlVars == <<pc, camIdx, mainResult, mainRet, rscRets, uncaught>>
locVars == <<rscResult, acqResult, imgIdx, imgComplete, serial, acqRet, figBound>>
sdkVars == <<camInit, camStreaming, unreleased, releaseCount>>
histVars == <<events, lastCall, faults>>
extVars == <<camEvents, nodeCallbacks, image_count>>
ifaceVars == <<ifIdx, sysHandler, ifaceHandlers, interface_events>>
obsVars == <<saved, files, overwritten, getCalls>>
fmtVars == <<fmtAccess, fmtInc, fmtWrites, fmtRet>>
devVars == <<event_name, count, delivered>>
unitVars == <<fmtVars, devVars>>
vars == <<envVars, ctlVars, locVars, sdkVars, histVars, extVars, ifaceVars, obsVars, unitVars>>

\* -------------------------------------------------------- history helpers
\* The state an SDK call is made in.
Snap(op, c) ==
  [op |-> op, cam |-> c,
   init |-> IF c \in Cams THEN camInit[c] ELSE FALSE,
   streaming |-> IF c \in Cams THEN camStreaming[c] ELSE FALSE,
   begun |-> <<"BeginAcquisition", c, "ok">> \in events,
   released |-> releaseCount > 0]

NoCall == [op |-> "none", cam |-> NoCam, init |-> FALSE, streaming |-> FALSE,
           begun |-> FALSE, released |-> FALSE]

\* The calls the history keeps: those that acquire or release something.  Of
\* the other calls (node reads and writes, image accessors) it keeps only that
\* one of them raised (as call "other").
Lifecycle ==
  {"Init", "DeInit", "BeginAcquisition", "EndAcquisition", "GetNextImage", "Release",
   "RegisterEvent", "UnregisterEvent", "RegisterNodeCallback", "DeregisterNodeCallback",
   "CamList.Clear", "IfaceList.Clear", "ReleaseInstance"}

Kept(op) == IF op \in Lifecycle THEN op ELSE "other"

\* Record the calls in ops (all on camera c, all returned), the last one being op
\* ("none": no call was made).
Called(ops, op, c) ==
  /\ events' = events \cup {<<o, c, "ok">> : o \in ops \cap Lifecycle}
  /\ lastCall' = IF op = "none" THEN lastCall ELSE Snap(op, c)
  /\ faults' = faults

\* The first k elements of a sequence of calls, and the k-th one.
Written(seq, k) == {seq[j] : j \in 1 .. k}
LastOf(seq, k) == IF k = 0 THEN "none" ELSE seq[k]

\* Record the calls in ops (returned) and then the call op, which raised.
Raised(ops, op, c) ==
  /\ faults < MaxFaults
  /\ events' = events \cup {<<o, c, "ok">> : o \in ops \cap Lifecycle}
                       \cup {<<Kept(op), c, "raised">>}
  /\ lastCall' = Snap(op, c)
  /\ faults' = faults + 1

NoHist == UNCHANGED histVars

\* ------------------------------------------------------- control helpers
BoolStr(b) == IF b THEN "True" ELSE "False"

\* main's loop body is "result &= run_single_camera(cam)" in these scripts and
\* "result = run_single_camera(cam)" in the others.
Accumulates(s) == s \in {"NodeMapCallback", "ImageEvents"}

\* run_single_camera returns v to main's loop.
RscReturn(v) ==
  /\ rscRets' = [rscRets EXCEPT ![camIdx] = BoolStr(v)]
  /\ mainResult' = IF Accumulates(script) THEN (mainResult /\ v) ELSE v
  /\ camIdx' = camIdx + 1
  /\ pc' = "main_loop"
  /\ UNCHANGED <<mainRet, uncaught>>

\* An exception that no except clause of the script catches leaves main.
PyCrash(exc) ==
  /\ pc' = "crashed"
  /\ uncaught' = exc
  /\ UNCHANGED <<camIdx, mainResult, mainRet, rscRets>>

Goto(l) ==
  /\ pc' = l
  /\ UNCHANGED <<camIdx, mainResult, mainRet, rscRets, uncaught>>

\* ---------------------------------------------------------------- Init
\* The five nodes configure_custom_image_settings writes, in the order of the
\* function's text (Width and Height are the nodes with an increment).
FormatNodes == 1 .. 5
IncNodes == {4, 5}

\* Neither configure_custom_image_settings was called.
NotConfigured ==
  /\ fmtWrites = [s \in FormatScripts |-> <<>>]
  /\ fmtRet = [s \in FormatScripts |-> "none"]

\* No configure_custom_image_settings call is compared with the other example's.
FormatIdle ==
  /\ fmtAccess = [j \in FormatNodes |-> TRUE]
  /\ fmtInc = [j \in IncNodes |-> TRUE]
  /\ NotConfigured

\* No DeviceEventHandler is observed.
HandlerIdle ==
  /\ event_name = "none"
  /\ count = 0
  /\ delivered = <<>>

UnitsIdle == FormatIdle /\ HandlerIdle

\* The state main() starts in.
InitProgram ==
  /\ script \in Scripts
  /\ numCameras \in 0 .. MaxCameras
  /\ numIfaces \in IF script \in IfaceScripts THEN 0 .. MaxIfaces ELSE {0}
  /\ pc = "main"
  /\ camIdx = 0
  /\ mainResult = TRUE
  /\ mainRet = "none"
  /\ rscRets = [c \in Cams |-> "none"]
  /\ uncaught = "none"
  /\ rscResult = TRUE
  /\ acqResult = TRUE
  /\ imgIdx = 0
  /\ imgComplete = TRUE
  /\ serial = "unbound"
  /\ acqRet = "none"
  /\ figBound = FALSE
  /\ camInit = [c \in Cams |-> FALSE]
  /\ camStreaming = [c \in Cams |-> FALSE]
  /\ unreleased = [c \in Cams |-> 0]
  /\ releaseCount = 0
  /\ events = {}
  /\ lastCall = NoCall
  /\ faults = 0
  /\ camEvents = [c \in Cams |-> FALSE]
  /\ nodeCallbacks = [c \in Cams |-> {}]
  /\ image_count = 0
  /\ ifIdx = 0
  /\ sysHandler = FALSE
  /\ ifaceHandlers = [i \in Ifaces |-> NoHandler]
  /\ interface_events = <<>>
  /\ saved = {}
  /\ files = {}
  /\ overwritten = FALSE
  /\ getCalls = 0

Init == InitProgram /\ UnitsIdle /\ keepFiles = FALSE

\* ---------------------------------------------------------------- main
\* system = GetInstance(); cam_list = system.GetCameras(); num_cameras = cam_list.GetSize()
main_GetCameras ==
  /\ pc = "main"
  /\ script \in CameraLoopScripts
  /\ \/ /\ Called({"GetInstance", "GetCameras", "GetSize"}, "GetSize", NoCam)
        /\ Goto(IF numCameras = 0 THEN "main_no_cameras" ELSE "main_loop")
     \/ /\ \E op \in {"GetInstance", "GetCameras", "GetSize"} : Raised({}, op, NoCam)
        /\ PyCrash("SpinnakerException")
  /\ UNCHANGED <<envVars, locVars, sdkVars, extVars, ifaceVars, obsVars, unitVars>>

\* if num_cameras == 0: cam_list.Clear() ...
\* (Enumeration: "if num_cams == 0 or num_interfaces == 0:")
main_no_cameras_Clear ==
  /\ pc = "main_no_cameras"
  /\ \/ /\ Called({"CamList.Clear"}, "CamList.Clear", NoCam)
        /\ Goto(IF script \in EnumScripts THEN "main_no_cameras_iface" ELSE "main_no_cameras_release")
     \/ /\ Raised({}, "CamList.Clear", NoCam)
        /\ PyCrash("SpinnakerException")
  /\ UNCHANGED <<envVars, locVars, sdkVars, extVars, ifaceVars, obsVars, unitVars>>

\* Enumeration: ... interface_list.Clear() ...
main_no_cameras_IfaceClear ==
  /\ pc = "main_no_cameras_iface"
  /\ \/ /\ Called({"IfaceList.Clear"}, "IfaceList.Clear", NoCam)
        /\ Goto("main_no_cameras_release")
     \/ /\ Raised({}, "IfaceList.Clear", NoCam)
        /\ PyCrash("SpinnakerException")
  /\ UNCHANGED <<envVars, locVars, sdkVars, extVars, ifaceVars, obsVars, unitVars>>

\* The "if num_cameras == 0:" block of main ends with "return False".  In
\* ImageEvents, Enumeration and Enumeration_QuickSpin it ends with
\* raw_input(...) and main goes on to the loop below it.
NoCamerasReturns(s) == s \notin {"ImageEvents"} \cup EnumScripts

\* ... system.ReleaseInstance(); return False
main_no_cameras_ReleaseInstance ==
  /\ pc = "main_no_cameras_release"
  /\ \/ /\ Called({"ReleaseInstance"}, "ReleaseInstance", NoCam)
        /\ releaseCount' = releaseCount + 1
        /\ pc' = CASE NoCamerasReturns(script) -> "done"
                   [] script \in EnumScripts -> "iface_loop"
                   [] OTHER -> "main_loop"
        /\ mainRet' = IF NoCamerasReturns(script) THEN "False" ELSE mainRet
        /\ UNCHANGED <<camIdx, mainResult, rscRets, uncaught>>
     \/ /\ Raised({}, "ReleaseInstance", NoCam)
        /\ PyCrash("SpinnakerException")
        /\ UNCHANGED releaseCount
  /\ UNCHANGED <<envVars, locVars, camInit, camStreaming, unreleased, extVars, ifaceVars, obsVars, unitVars>>

\* A run_single_camera that configures the camera before cam.Init().
RscEntryConfigureFirst(s) == "configure"

\* The first step of run_single_camera.
RscEntry(s) ==
  CASE s \in QuickSpinScripts -> "Init"
    [] s = "NodeMapInfo" -> "print_tl"
    [] OTHER -> "print_device_info"

\* for i in range(num_cameras): cam = cam_list.GetByIndex(i); ... run_single_camera(cam)
\* (the locals of the previous call are gone; events starts afresh for the camera)
main_loop ==
  /\ pc = "main_loop"
  /\ IF camIdx < numCameras
       THEN \/ /\ events' = {e \in events : e[2] = NoCam}
               /\ lastCall' = Snap("GetByIndex", NoCam)
               /\ faults' = faults
               /\ Goto(RscEntry(script))
            \/ /\ Raised({}, "GetByIndex", NoCam)
               /\ PyCrash("SpinnakerException")
       ELSE /\ NoHist
            /\ Goto("main_cleanup")
  /\ rscResult' = TRUE
  /\ acqResult' = TRUE
  /\ imgIdx' = 0
  /\ imgComplete' = TRUE
  /\ serial' = "unbound"
  /\ acqRet' = "none"
  /\ figBound' = FALSE
  /\ saved' = {}
  /\ getCalls' = 0
  /\ UNCHANGED <<envVars, sdkVars, extVars, ifaceVars, files, overwritten, unitVars>>

\* "del cam" (Enumeration: "del interface") names a local that the loop above
\* it binds; it is executed although the loop had no iteration.
DelUnbound ==
  \/ script \in EnumScripts /\ numIfaces = 0
  \/ script = "NodeMapInfo_QuickSpin" /\ numCameras = 0

\* The step of main that follows cam_list.Clear().
AfterClear(s) ==
  CASE s = "Logging" -> "logging_unregister"
    [] s \in IfaceScripts -> "main_iface_clear"
    [] OTHER -> "main_release"

\* del cam; cam_list.Clear()
main_Clear ==
  /\ pc = "main_cleanup"
  /\ \/ /\ ~DelUnbound
        /\ Called({"CamList.Clear"}, "CamList.Clear", NoCam)
        /\ Goto(AfterClear(script))
     \/ /\ ~DelUnbound
        /\ Raised({}, "CamList.Clear", NoCam)
        /\ PyCrash("SpinnakerException")
     \/ /\ DelUnbound
        /\ NoHist
        /\ PyCrash("UnboundLocalError")
  /\ UNCHANGED <<envVars, locVars, sdkVars, extVars, ifaceVars, obsVars, unitVars>>

\* interface_list.Clear()
main_IfaceClear ==
  /\ pc = "main_iface_clear"
  /\ \/ /\ Called({"IfaceList.Clear"}, "IfaceList.Clear", NoCam)
        /\ Goto("main_release")
     \/ /\ Raised({}, "IfaceList.Clear", NoCam)
        /\ PyCrash("SpinnakerException")
  /\ UNCHANGED <<envVars, locVars, sdkVars, extVars, ifaceVars, obsVars, unitVars>>

\* main ends without a return statement in these scripts.
ReturnsNone(s) == s \in EnumScripts \cup {"EnumerationEvents", "Logging"}

\* system.ReleaseInstance(); return result
main_ReleaseInstance ==
  /\ pc = "main_release"
  /\ \/ /\ Called({"ReleaseInstance"}, "ReleaseInstance", NoCam)
        /\ releaseCount' = releaseCount + 1
        /\ pc' = "done"
        /\ mainRet' = IF ReturnsNone(script) THEN "None" ELSE BoolStr(mainResult)
        /\ UNCHANGED <<camIdx, mainResult, rscRets, uncaught>>
     \/ /\ Raised({}, "ReleaseInstance", NoCam)
        /\ PyCrash("SpinnakerException")
        /\ UNCHANGED releaseCount
  /\ UNCHANGED <<envVars, locVars, camInit, camStreaming, unreleased, extVars, ifaceVars, obsVars, unitVars>>

\* ------------------------------------------------ Enumeration's main
\* system = GetInstance(); interface_list = system.GetInterfaces(); ...;
\* cam_list = system.GetCameras(); num_cams = cam_list.GetSize()
Enumeration_main ==
  /\ pc = "main"
  /\ script \in EnumScripts
  /\ \/ /\ Called({"GetInstance", "GetInterfaces", "GetCameras"}, "GetCameras", NoCam)
        /\ Goto(IF numCameras = 0 \/ numIfaces = 0 THEN "main_no_cameras" ELSE "iface_loop")
     \/ /\ \E op \in {"GetInstance", "GetInterfaces", "GetCameras"} : Raised({}, op, NoCam)
        /\ PyCrash("SpinnakerException")
  /\ UNCHANGED <<envVars, locVars, sdkVars, extVars, ifaceVars, obsVars, unitVars>>

\* for i in range(num_interfaces): interface = interface_list[i];
\* result &= query_interface(interface)
\* query_interface catches the SDK exception and returns False.
Enumeration_query_interface ==
  /\ pc = "iface_loop"
  /\ IF ifIdx < numIfaces
       THEN \/ /\ Called({"InterfaceList.Get", "Interface.UpdateCameras"},
                         "Interface.UpdateCameras", NoCam)
               /\ ifIdx' = ifIdx + 1
               /\ Goto("iface_loop")
            \/ /\ Raised({"InterfaceList.Get"}, "Interface.UpdateCameras", NoCam)
               /\ ifIdx' = ifIdx + 1
               /\ pc' = "iface_loop"
               /\ mainResult' = FALSE
               /\ UNCHANGED <<camIdx, mainRet, rscRets, uncaught>>
            \/ /\ Raised({}, "InterfaceList.Get", NoCam)
               /\ PyCrash("SpinnakerException")
               /\ UNCHANGED ifIdx
       ELSE /\ NoHist
            /\ Goto("main_cleanup")
            /\ UNCHANGED ifIdx
  /\ UNCHANGED <<envVars, locVars, sdkVars, extVars, sysHandler, ifaceHandlers, interface_events, obsVars, unitVars>>

\* ------------------------------------------ NodeMapInfo_QuickSpin's main
\* sys = GetInstance(); cam_list = sys.GetCameras(); iface_list = sys.GetInterfaces();
\* the three loops that print the transport layer information
\* ("result &= print_transport_layer_..._info(...)", each catching the SDK exception)
NodeMapInfo_QuickSpin_main ==
  /\ pc = "main"
  /\ script = "NodeMapInfo_QuickSpin"
  /\ \/ /\ Called({"GetInstance", "GetCameras", "GetInterfaces"}, "GetInterfaces", NoCam)
        /\ \E r \in BOOLEAN :
             /\ pc' = "qs_loop"
             /\ mainResult' = r
        /\ UNCHANGED <<camIdx, mainRet, rscRets, uncaught>>
     \/ /\ Raised({"GetInstance", "GetCameras", "GetInterfaces"}, "TLDevice", NoCam)
        /\ pc' = "qs_loop"
        /\ mainResult' = FALSE
        /\ UNCHANGED <<camIdx, mainRet, rscRets, uncaught>>
     \/ /\ \E op \in {"GetInstance", "GetCameras", "GetInterfaces"} : Raised({}, op, NoCam)
        /\ PyCrash("SpinnakerException")
  /\ UNCHANGED <<envVars, locVars, sdkVars, extVars, ifaceVars, obsVars, unitVars>>

\* for cam in cam_list: cam.Init() ...
NodeMapInfo_QuickSpin_Init ==
  /\ pc = "qs_loop"
  /\ IF camIdx < numCameras
       THEN \/ /\ Called({"Init"}, "Init", camIdx)
               /\ camInit' = [camInit EXCEPT ![camIdx] = TRUE]
               /\ Goto("qs_print")
            \/ /\ Raised({}, "Init", camIdx)
               /\ PyCrash("SpinnakerException")
               /\ UNCHANGED camInit
       ELSE /\ NoHist
            /\ Goto("main_cleanup")
            /\ UNCHANGED camInit
  /\ UNCHANGED <<envVars, locVars, camStreaming, unreleased, releaseCount, extVars, ifaceVars, obsVars, unitVars>>

\* ... result &= print_genicam_device_info(cam); cam.DeInit()
NodeMapInfo_QuickSpin_DeInit ==
  /\ pc = "qs_print"
  /\ \/ /\ Called({"DeInit"}, "DeInit", camIdx)
        /\ camInit' = [camInit EXCEPT ![camIdx] = FALSE]
        /\ \E r \in BOOLEAN : mainResult' = (mainResult /\ r)
        /\ camIdx' = camIdx + 1
        /\ pc' = "qs_loop"
        /\ UNCHANGED <<mainRet, rscRets, uncaught>>
     \/ /\ Raised({"DeInit"}, "ExposureTime", camIdx)
        /\ camInit' = [camInit EXCEPT ![camIdx] = FALSE]
        /\ mainResult' = FALSE
        /\ camIdx' = camIdx + 1
        /\ pc' = "qs_loop"
        /\ UNCHANGED <<mainRet, rscRets, uncaught>>
     \/ /\ Raised({}, "DeInit", camIdx)
        /\ PyCrash("SpinnakerException")
        /\ UNCHANGED camInit
  /\ UNCHANGED <<envVars, locVars, camStreaming, unreleased, releaseCount, extVars, ifaceVars, obsVars, unitVars>>

\* ------------------------------------------- EnumerationEvents' main
\* system = GetInstance(); cam_list = system.GetCameras(); interface_list =
\* system.GetInterfaces(); system_event_handler = SystemEventHandler(system);
\* system.RegisterInterfaceEvent(system_event_handler); interface_events = []
EnumerationEvents_main ==
  /\ pc = "main"
  /\ script = "EnumerationEvents"
  /\ \/ /\ Called({"GetInstance", "GetCameras", "GetInterfaces", "RegisterInterfaceEvent"},
                  "RegisterInterfaceEvent", NoCam)
        /\ sysHandler' = TRUE
        /\ Goto("ee_register")
     \/ /\ \E op \in {"GetInstance", "GetCameras", "GetInterfaces", "RegisterInterfaceEvent"} :
             Raised({}, op, NoCam)
        /\ PyCrash("SpinnakerException")
        /\ UNCHANGED sysHandler
  /\ UNCHANGED <<envVars, locVars, sdkVars, extVars, ifIdx, ifaceHandlers, interface_events, obsVars, unitVars>>

\* for i in range(num_ifaces): iface = interface_list[i];
\* iface_event_handler = InterfaceEventHandler(iface, i);
\* interface_events.append(iface_event_handler); iface.RegisterEvent(interface_events[i])
\* and, after the loop, "del iface; del iface_event_handler".
\* The handler created for interface i is identified by i.
EnumerationEvents_RegisterEvent ==
  /\ pc = "ee_register"
  /\ IF ifIdx < numIfaces
       THEN \/ /\ Called({"InterfaceList.Get", "Interface.RegisterEvent"},
                         "Interface.RegisterEvent", NoCam)
               /\ interface_events' = Append(interface_events, ifIdx)
               /\ ifaceHandlers' = [ifaceHandlers EXCEPT ![ifIdx] = Append(interface_events, ifIdx)[ifIdx + 1]]
               /\ ifIdx' = ifIdx + 1
               /\ Goto("ee_register")
            \/ /\ Raised({"InterfaceList.Get"}, "Interface.RegisterEvent", NoCam)
               /\ interface_events' = Append(interface_events, ifIdx)
               /\ PyCrash("SpinnakerException")
               /\ UNCHANGED <<ifaceHandlers, ifIdx>>
            \/ /\ Raised({}, "InterfaceList.Get", NoCam)
               /\ PyCrash("SpinnakerException")
               /\ UNCHANGED <<ifaceHandlers, ifIdx, interface_events>>
       ELSE /\ NoHist
            /\ IF numIfaces = 0
                 THEN PyCrash("UnboundLocalError") /\ UNCHANGED ifIdx
                 ELSE Goto("ee_unregister") /\ ifIdx' = 0
            /\ UNCHANGED <<ifaceHandlers, interface_events>>
  /\ UNCHANGED <<envVars, locVars, sdkVars, extVars, sysHandler, obsVars, unitVars>>

\* What iface.UnregisterEvent(h) leaves registered on an interface that has
\* handler reg registered.
Unregistered(reg, h) == IF reg = h THEN NoHandler ELSE reg

\* for i in range(num_ifaces): interface_list[i].UnregisterEvent(interface_events[i])
\* and, after the loop, "del interface_events".
EnumerationEvents_UnregisterEvent ==
  /\ pc = "ee_unregister"
  /\ IF ifIdx < numIfaces
       THEN \/ /\ Called({"InterfaceList.Get", "Interface.UnregisterEvent"},
                         "Interface.UnregisterEvent", NoCam)
               /\ ifaceHandlers' = [ifaceHandlers EXCEPT
                                      ![ifIdx] = Unregistered(@, interface_events[ifIdx + 1])]
               /\ ifIdx' = ifIdx + 1
               /\ Goto("ee_unregister")
            \/ /\ \E op \in {"InterfaceList.Get", "Interface.UnregisterEvent"} :
                    Raised({}, op, NoCam)
               /\ PyCrash("SpinnakerException")
               /\ UNCHANGED <<ifaceHandlers, ifIdx>>
       ELSE /\ NoHist
            /\ Goto("ee_sys_unregister")
            /\ UNCHANGED <<ifaceHandlers, ifIdx>>
  /\ UNCHANGED <<envVars, locVars, sdkVars, extVars, sysHandler, interface_events, obsVars, unitVars>>

\* system.UnregisterInterfaceEvent(system_event_handler); del system_event_handler
EnumerationEvents_UnregisterInterfaceEvent ==
  /\ pc = "ee_sys_unregister"
  /\ \/ /\ Called({"UnregisterInterfaceEvent"}, "UnregisterInterfaceEvent", NoCam)
        /\ sysHandler' = FALSE
        /\ Goto("main_cleanup")
     \/ /\ Raised({}, "UnregisterInterfaceEvent", NoCam)
        /\ PyCrash("SpinnakerException")
        /\ UNCHANGED sysHandler
  /\ UNCHANGED <<envVars, locVars, sdkVars, extVars, ifIdx, ifaceHandlers, interface_events, obsVars, unitVars>>

\* -------------------------------------------------------- take_a_photo
\* The statements of the script, in order; it has no function and no try.
TakeAPhoto ==
  <<"Init", "Set:AcquisitionMode", "BeginAcquisition", "GetNextImage", "Save",
    "EndAcquisition", "DeInit">>

\* One statement of take_a_photo (the first one with GetInstance(), GetCameras()
\* and cam_list.GetByIndex(0), which raises when no camera is connected).
take_a_photo ==
  /\ script = "take_a_photo"
  /\ pc = "main" \/ pc \in {TakeAPhoto[k] : k \in 2 .. 7}
  /\ LET op == IF pc = "main" THEN "Init" ELSE pc
         k == CHOOSE j \in 1 .. 7 : TakeAPhoto[j] = op
     IN \/ /\ pc = "main" => numCameras > 0
           /\ Called({op}, op, 0)
           /\ camInit' = [camInit EXCEPT ![0] = IF op = "Init" THEN TRUE
                                                ELSE IF op = "DeInit" THEN FALSE ELSE @]
           /\ camStreaming' = [camStreaming EXCEPT ![0] = IF op = "BeginAcquisition" THEN TRUE
                                                          ELSE IF op = "EndAcquisition" THEN FALSE ELSE @]
           /\ unreleased' = [unreleased EXCEPT ![0] = IF op = "GetNextImage" THEN @ + 1 ELSE @]
           /\ IF k < 7
                THEN Goto(TakeAPhoto[k + 1])
                ELSE /\ pc' = "done"
                     /\ mainRet' = "None"
                     /\ UNCHANGED <<camIdx, mainResult, rscRets, uncaught>>
        \/ /\ pc = "main" => numCameras > 0
           /\ Raised({}, op, 0)
           /\ PyCrash("SpinnakerException")
           /\ UNCHANGED <<camInit, camStreaming, unreleased>>
        \/ /\ pc = "main" /\ numCameras = 0
           /\ events' = events \cup {<<"other", NoCam, "raised">>}
           /\ lastCall' = Snap("GetByIndex", NoCam)
           /\ faults' = faults
           /\ PyCrash("SpinnakerException")
           /\ UNCHANGED <<camInit, camStreaming, unreleased>>
  /\ UNCHANGED <<envVars, locVars, releaseCount, extVars, ifaceVars, obsVars, unitVars>>

\* ---------------------------------------------------- Logging's main
\* system = GetInstance(); system.RegisterLoggingEvent(logging_event_handler);
\* system.SetLoggingEventPriorityLevel(LOGGING_LEVEL); cam_list = system.GetCameras(); ...
Logging_main ==
  /\ pc = "main"
  /\ script = "Logging"
  /\ \/ /\ Called({"GetInstance", "RegisterLoggingEvent", "GetCameras"}, "GetCameras", NoCam)
        /\ sysHandler' = TRUE
        /\ Goto("main_cleanup")
     \/ /\ \E op \in {"GetInstance", "RegisterLoggingEvent"} : Raised({}, op, NoCam)
        /\ PyCrash("SpinnakerException")
        /\ UNCHANGED sysHandler
     \/ /\ \E op \in {"SetLoggingEventPriorityLevel", "GetCameras"} :
             Raised({"GetInstance", "RegisterLoggingEvent"}, op, NoCam)
        /\ sysHandler' = TRUE
        /\ PyCrash("SpinnakerException")
  /\ UNCHANGED <<envVars, locVars, sdkVars, extVars, ifIdx, ifaceHandlers, interface_events, obsVars, unitVars>>

\* system.UnregisterLoggingEvent(logging_event_handler)
Logging_UnregisterLoggingEvent ==
  /\ pc = "logging_unregister"
  /\ \/ /\ Called({"UnregisterLoggingEvent"}, "UnregisterLoggingEvent", NoCam)
        /\ sysHandler' = FALSE
        /\ Goto("main_release")
     \/ /\ Raised({}, "UnregisterLoggingEvent", NoCam)
        /\ PyCrash("SpinnakerException")
        /\ UNCHANGED sysHandler
  /\ UNCHANGED <<envVars, locVars, sdkVars, extVars, ifIdx, ifaceHandlers, interface_events, obsVars, unitVars>>

\* --------------------------------------------------- run_single_camera
\* nodemap_tldevice = cam.GetTLDeviceNodeMap(); result &= print_device_info(nodemap_tldevice)
\* (QuickSpin: result = print_device_info(cam), which retrieves the nodemap in its own try;
\* ImageChannelStatistics: the nodemap is retrieved and nothing is printed)
print_device_info ==
  /\ pc = "print_device_info"
  /\ \/ /\ Called({"GetTLDeviceNodeMap", "DeviceInformation"}, "DeviceInformation", camIdx)
        /\ Goto(IF script \in QuickSpinScripts THEN "configure" ELSE "Init")
        /\ rscResult' = IF script \in QuickSpinScripts THEN TRUE ELSE rscResult
     \/ /\ script # "ImageChannelStatistics"
        /\ Raised({"GetTLDeviceNodeMap"}, "DeviceInformation", camIdx)
        /\ Goto(IF script \in QuickSpinScripts THEN "configure" ELSE "Init")
        /\ rscResult' = FALSE
     \/ /\ Raised({}, "GetTLDeviceNodeMap", camIdx)
        /\ IF script \in QuickSpinScripts
             THEN Goto("configure") /\ rscResult' = FALSE
             ELSE RscReturn(FALSE) /\ rscResult' = FALSE
  /\ UNCHANGED <<envVars, acqResult, imgIdx, imgComplete, serial, acqRet, figBound, sdkVars, extVars, ifaceVars, obsVars, unitVars>>

\* The step of run_single_camera that follows cam.Init() and cam.GetNodeMap().
AfterInit(s) ==
  CASE s \in QuickSpinScripts -> "print_device_info"
    [] s \in {"SaveToAvi", "ImageChannelStatistics"} -> "acquire"
    [] s = "NodeMapInfo" -> "print_app"
    [] OTHER -> "configure"

\* cam.Init(); nodemap = cam.GetNodeMap()   (QuickSpin: cam.Init() only)
run_single_camera_Init ==
  /\ pc = "Init"
  /\ \/ /\ Called(IF script \in QuickSpinScripts THEN {"Init"} ELSE {"Init", "GetNodeMap"},
                  "Init", camIdx)
        /\ camInit' = [camInit EXCEPT ![camIdx] = TRUE]
        /\ Goto(AfterInit(script))
        /\ UNCHANGED rscResult
     \/ /\ Raised({}, "Init", camIdx)
        /\ RscReturn(FALSE)
        /\ rscResult' = FALSE
        /\ UNCHANGED camInit
     \/ /\ script \notin QuickSpinScripts
        /\ Raised({"Init"}, "GetNodeMap", camIdx)
        /\ camInit' = [camInit EXCEPT ![camIdx] = TRUE]
        /\ RscReturn(FALSE)
        /\ rscResult' = FALSE
  /\ UNCHANGED <<envVars, acqResult, imgIdx, imgComplete, serial, acqRet, figBound, camStreaming, unreleased, releaseCount, extVars, ifaceVars, obsVars, unitVars>>

\* ------------------------------------------------------ configuration
TriggerWrites == <<"Set:TriggerMode", "Set:TriggerSource", "Set:TriggerMode">>

\* The writes of configure_trigger that follow an availability check which
\* returns False when it fails (Trigger_QuickSpin writes TriggerMode_On unchecked).
TriggerChecked(s) == IF s = "Trigger" THEN {1, 2, 3} ELSE {1, 2}

\* configure_trigger: TriggerMode Off, TriggerSource Software, TriggerMode On;
\* run_single_camera: "if configure_trigger(cam) is False: return False"
configure_trigger ==
  /\ pc = "configure"
  /\ script \in TriggerScripts
  /\ \/ /\ Called(Written(TriggerWrites, 3), "Set:TriggerMode", camIdx)
        /\ Goto("acquire")
     \/ \E k \in 0 .. 2 :
          /\ (k + 1) \in TriggerChecked(script)
          /\ Called(Written(TriggerWrites, k), LastOf(TriggerWrites, k), camIdx)
          /\ RscReturn(FALSE)
     \/ \E k \in 0 .. 2 :
          /\ Raised(Written(TriggerWrites, k), TriggerWrites[k + 1], camIdx)
          /\ RscReturn(FALSE)
  /\ UNCHANGED <<envVars, locVars, sdkVars, extVars, ifaceVars, obsVars, unitVars>>

FormatWrites == <<"Set:PixelFormat", "Set:OffsetX", "Set:OffsetY", "Set:Width", "Set:Height">>

\* The nodes among the first k that configure_custom_image_settings writes,
\* rw[j] telling whether the j-th node passed its access check.
FormatWritten(rw, k) == {FormatWrites[j] : j \in {i \in 1 .. k : rw[i]}}
FormatLast(rw, k) ==
  IF {i \in 1 .. k : rw[i]} = {} THEN "none"
  ELSE FormatWrites[CHOOSE i \in 1 .. k : rw[i] /\ \A j \in 1 .. k : rw[j] => j <= i]

\* What configure_custom_image_settings returns when no call raised:
\* ImageFormatControl only prints when a node is not writable,
\* ImageFormatControl_QuickSpin sets result = False.
FormatResult(s, rw) == IF s = "ImageFormatControl" THEN TRUE ELSE \A j \in 1 .. 5 : rw[j]

\* configure_custom_image_settings;
\* run_single_camera: "if not configure_custom_image_settings(...): return False"
configure_custom_image_settings ==
  /\ pc = "configure"
  /\ script \in FormatScripts
  /\ \E rw \in [1 .. 5 -> BOOLEAN] :
       \/ /\ Called(FormatWritten(rw, 5), FormatLast(rw, 5), camIdx)
          /\ IF FormatResult(script, rw) THEN Goto("acquire") ELSE RscReturn(FALSE)
       \/ \E k \in 0 .. 4 :
            /\ \A j \in (k + 1) .. 5 : rw[j]
            /\ Raised(FormatWritten(rw, k), FormatWrites[k + 1], camIdx)
            /\ RscReturn(FALSE)
  /\ UNCHANGED <<envVars, locVars, sdkVars, extVars, ifaceVars, obsVars, unitVars>>

ExposureWrites == <<"Set:ExposureAuto", "Set:ExposureTime">>

\* configure_exposure; run_single_camera: "if not configure_exposure(cam): return False"
configure_exposure ==
  /\ pc = "configure"
  /\ script = "Exposure_QuickSpin"
  /\ \/ /\ Called(Written(ExposureWrites, 2), "Set:ExposureTime", camIdx)
        /\ Goto("acquire")
     \/ \E k \in 0 .. 1 :
          /\ Called(Written(ExposureWrites, k), LastOf(ExposureWrites, k), camIdx)
          /\ RscReturn(FALSE)
     \/ \E k \in 0 .. 1 :
          /\ Raised(Written(ExposureWrites, k), ExposureWrites[k + 1], camIdx)
          /\ RscReturn(FALSE)
  /\ UNCHANGED <<envVars, locVars, sdkVars, extVars, ifaceVars, obsVars, unitVars>>

\* configure_device_events(nodemap, cam): enable every entry of EventSelector
\* (an entry that cannot be enabled is skipped with result = False), create the
\* handler, cam.RegisterEvent(device_event_handler);
\* "return result, device_event_handler" after the try/except.
\* run_single_camera: "err, device_event_handler = configure_device_events(...);
\* if not err: return err"
configure_device_events ==
  /\ pc = "configure"
  /\ script = "DeviceEvents"
  /\ \/ \E skipped \in BOOLEAN :
          /\ Called({"Set:EventSelector", "Set:EventNotification", "RegisterEvent"},
                    "RegisterEvent", camIdx)
          /\ camEvents' = [camEvents EXCEPT ![camIdx] = TRUE]
          /\ IF skipped THEN RscReturn(FALSE) ELSE Goto("acquire")
     \/ /\ Raised({"Set:EventSelector", "Set:EventNotification"}, "RegisterEvent", camIdx)
        /\ RscReturn(FALSE)
        /\ UNCHANGED camEvents
     \* "return False": the caller unpacks a bool
     \/ /\ Called({}, "none", camIdx)
        /\ PyCrash("TypeError")
        /\ UNCHANGED camEvents
     \* an SDK call raises before device_event_handler is bound
     \/ /\ \E op \in {"EventSelector", "Set:EventSelector", "Set:EventNotification"} :
             Raised({}, op, camIdx)
        /\ PyCrash("UnboundLocalError")
        /\ UNCHANGED camEvents
  /\ UNCHANGED <<envVars, locVars, sdkVars, nodeCallbacks, image_count, ifaceVars, obsVars, unitVars>>

\* "result &= reset_device_events(cam, device_event_handler)":
\* cam.UnregisterEvent(device_event_handler)
reset_device_events ==
  /\ pc = "reset"
  /\ script = "DeviceEvents"
  /\ \/ /\ Called({"UnregisterEvent"}, "UnregisterEvent", camIdx)
        /\ camEvents' = [camEvents EXCEPT ![camIdx] = FALSE]
        /\ UNCHANGED rscResult
     \/ /\ Raised({}, "UnregisterEvent", camIdx)
        /\ rscResult' = FALSE
        /\ UNCHANGED camEvents
  /\ Goto("DeInit")
  /\ UNCHANGED <<envVars, acqResult, imgIdx, imgComplete, serial, acqRet, figBound, sdkVars,
                 nodeCallbacks, image_count, ifaceVars, obsVars, unitVars>>

\* configure_callbacks(nodemap): GainAuto Off, register the height callback,
\* register the gain callback; "return result, callback_height, callback_gain"
\* after the try/except, "return False" where a node is not accessible.
\* run_single_camera: "err, callback_height, callback_gain = configure_callbacks(nodemap);
\* if not err: return err"
configure_callbacks ==
  /\ pc = "configure"
  /\ script = "NodeMapCallback"
  /\ \/ /\ Called({"Set:GainAuto", "RegisterNodeCallback"}, "RegisterNodeCallback", camIdx)
        /\ nodeCallbacks' = [nodeCallbacks EXCEPT ![camIdx] = {"height", "gain"}]
        /\ Goto("change")
     \* registering the gain callback raises: both names are bound
     \/ /\ Raised({"Set:GainAuto", "RegisterNodeCallback"}, "RegisterNodeCallback", camIdx)
        /\ nodeCallbacks' = [nodeCallbacks EXCEPT ![camIdx] = {"height"}]
        /\ RscReturn(FALSE)
     \* the Gain node is not writable, or retrieving it raises: the height
     \* callback is registered, callback_gain is not bound
     \/ /\ Called({"Set:GainAuto", "RegisterNodeCallback"}, "RegisterNodeCallback", camIdx)
        /\ nodeCallbacks' = [nodeCallbacks EXCEPT ![camIdx] = {"height"}]
        /\ PyCrash("TypeError")
     \/ /\ Raised({"Set:GainAuto", "RegisterNodeCallback"}, "Gain", camIdx)
        /\ nodeCallbacks' = [nodeCallbacks EXCEPT ![camIdx] = {"height"}]
        /\ PyCrash("UnboundLocalError")
     \* GainAuto or Height is not accessible: "return False" before any registration
     \/ /\ \E k \in 0 .. 1 : Called(Written(<<"Set:GainAuto">>, k), LastOf(<<"Set:GainAuto">>, k), camIdx)
        /\ PyCrash("TypeError")
        /\ UNCHANGED nodeCallbacks
     \* an SDK call raises before or while the height callback is registered
     \/ /\ \/ Raised({}, "Set:GainAuto", camIdx)
           \/ Raised({"Set:GainAuto"}, "Height", camIdx)
           \/ Raised({"Set:GainAuto"}, "RegisterNodeCallback", camIdx)
        /\ PyCrash("UnboundLocalError")
        /\ UNCHANGED nodeCallbacks
  /\ UNCHANGED <<envVars, locVars, sdkVars, camEvents, image_count, ifaceVars, obsVars, unitVars>>

ChangeWrites == <<"Set:Height", "Set:Gain">>

\* "result &= change_height_and_gain(nodemap)"
change_height_and_gain ==
  /\ pc = "change"
  /\ \/ /\ Called(Written(ChangeWrites, 2), "Set:Gain", camIdx)
        /\ UNCHANGED rscResult
     \/ /\ \E k \in 0 .. 1 : Called(Written(ChangeWrites, k), LastOf(ChangeWrites, k), camIdx)
        /\ rscResult' = FALSE
     \/ /\ \E k \in 0 .. 1 : Raised(Written(ChangeWrites, k), ChangeWrites[k + 1], camIdx)
        /\ rscResult' = FALSE
  /\ Goto("reset")
  /\ UNCHANGED <<envVars, acqResult, imgIdx, imgComplete, serial, acqRet, figBound, sdkVars, extVars, ifaceVars, obsVars, unitVars>>

\* "result &= reset_callbacks(nodemap, callback_height, callback_gain)":
\* DeregisterNodeCallback(callback_height); DeregisterNodeCallback(callback_gain);
\* GainAuto Continuous
reset_callbacks ==
  /\ pc = "reset"
  /\ script = "NodeMapCallback"
  /\ \/ /\ Called({"DeregisterNodeCallback", "Set:GainAuto"}, "Set:GainAuto", camIdx)
        /\ nodeCallbacks' = [nodeCallbacks EXCEPT ![camIdx] = {}]
        /\ UNCHANGED rscResult
     \/ /\ \/ Called({"DeregisterNodeCallback"}, "DeregisterNodeCallback", camIdx)
           \/ Raised({"DeregisterNodeCallback"}, "Set:GainAuto", camIdx)
        /\ nodeCallbacks' = [nodeCallbacks EXCEPT ![camIdx] = {}]
        /\ rscResult' = FALSE
     \* deregistering the gain callback raises
     \/ /\ Raised({"DeregisterNodeCallback"}, "DeregisterNodeCallback", camIdx)
        /\ nodeCallbacks' = [nodeCallbacks EXCEPT ![camIdx] = {}]
        /\ rscResult' = FALSE
     \* deregistering the height callback raises: line 249 is not reached
     \/ /\ Raised({}, "DeregisterNodeCallback", camIdx)
        /\ nodeCallbacks' = [nodeCallbacks EXCEPT ![camIdx] = {"gain"}]
        /\ rscResult' = FALSE
  /\ Goto("DeInit")
  /\ UNCHANGED <<envVars, acqResult, imgIdx, imgComplete, serial, acqRet, figBound, sdkVars,
                 camEvents, image_count, ifaceVars, obsVars, unitVars>>

\* "result &= save_list_to_avi(nodemap, nodemap_tldevice, images)": read the
\* serial number and the frame rate, AVIOpen, AVIAppend each image, AVIClose
save_list_to_avi ==
  /\ pc = "save_list_to_avi"
  /\ \/ /\ Called({"AVIOpen", "AVIAppend", "AVIClose"}, "AVIClose", camIdx)
        /\ UNCHANGED rscResult
     \/ /\ Called({}, "none", camIdx)
        /\ rscResult' = FALSE
     \/ /\ \E op \in {"AcquisitionFrameRate", "AVIOpen", "AVIAppend", "AVIClose"} :
             Raised({}, op, camIdx)
        /\ rscResult' = FALSE
  /\ Goto("DeInit")
  /\ UNCHANGED <<envVars, acqResult, imgIdx, imgComplete, serial, acqRet, figBound, sdkVars, extVars, ifaceVars, obsVars, unitVars>>

\* ------------------------------------------------------- acquisition
\* The step of run_single_camera that follows acquire_images.
AfterAcquire(s) ==
  CASE s \in TriggerScripts -> "reset"
    [] s \in {"Exposure_QuickSpin", "DeviceEvents", "ImageEvents"} -> "reset"
    [] s = "SaveToAvi" -> "save_list_to_avi"
    [] OTHER -> "DeInit"

\* The first step of an iteration of the image loop.
LoopHead(s) ==
  CASE s \in TriggerScripts -> "acq_trigger"
    [] s = "ImageEvents" -> "wait"
    [] OTHER -> "acq_get"

\* The image loop's "except PySpin.SpinnakerException" returns False;
\* in the other scripts it sets result = False and the loop goes on.
LoopExceptReturns == {"Trigger", "Trigger_QuickSpin", "ImageFormatControl", "ImageChannelStatistics"}

\* image_result.Release() is the last statement of the else branch (complete
\* images only); in the other scripts it follows the if/else.
ReleaseInElse == {"Trigger", "Trigger_QuickSpin", "ImageFormatControl", "SaveToAvi"}

\* acquire_images returns v: "result &= acquire_images(...)" in run_single_camera.
\* SaveToAvi: "err, images = acquire_images(cam, nodemap); if err < 0: return err";
\* err is a bool, never below 0, and result is left as it was.
AcqReturn(v) ==
  /\ acqRet' = BoolStr(v)
  /\ rscResult' = IF script = "SaveToAvi" THEN rscResult ELSE (rscResult /\ v)
  /\ Goto(AfterAcquire(script))

\* acquire_images leaves by one of its "return False" statements.  SaveToAvi's
\* caller unpacks the returned value as a pair: TypeError.
AcqReturnFalse ==
  IF script = "SaveToAvi"
    THEN PyCrash("TypeError") /\ UNCHANGED <<acqRet, rscResult>>
    ELSE AcqReturn(FALSE)

\* The outer except clause of acquire_images is reached before the image loop.
\* SaveToAvi then executes "return result, images" with images not yet bound.
AcqExceptBeforeLoop ==
  IF script = "SaveToAvi"
    THEN PyCrash("UnboundLocalError") /\ UNCHANGED <<acqRet, rscResult>>
    ELSE AcqReturn(FALSE)

\* What device_serial_number can be when the image loop starts: DeviceEvents
\* binds it only when the node is readable, SaveToAvi does not read it here.
SerialValues(s) ==
  CASE s = "DeviceEvents" -> {"unbound", "sn"}
    [] s = "SaveToAvi" -> {"unbound"}
    [] s = "ImageEvents" -> {serial}
    [] OTHER -> {"", "sn"}

\* The end of one iteration of "for i in range(NUM_IMAGES)".
NextIteration ==
  /\ imgIdx' = imgIdx + 1
  /\ Goto(IF imgIdx + 1 < NUM_IMAGES THEN LoopHead(script) ELSE "acq_end")
  /\ UNCHANGED <<acqRet, rscResult>>

\* An except clause that makes the loop try the same index again.
LoopExceptRetry ==
  /\ acqResult' = FALSE
  /\ Goto(LoopHead(script))
  /\ UNCHANGED <<imgIdx, acqRet, rscResult>>

\* The except clause of the try inside the image loop.
LoopExcept ==
  IF script \in LoopExceptReturns
    THEN AcqReturn(FALSE) /\ UNCHANGED <<acqResult, imgIdx>>
    ELSE acqResult' = FALSE /\ NextIteration

\* acquire_images up to the image loop: set AcquisitionMode to Continuous,
\* cam.BeginAcquisition(), read the device serial number.
acquire_images_BeginAcquisition ==
  /\ \/ pc = "acquire" /\ script \in (AcqScripts \cup {"ImageEvents"}) \ {"ImageChannelStatistics"}
     \/ pc = "acquire_begin"
  /\ \/ /\ pc = "acquire"
        /\ Called({}, "none", camIdx)
        /\ AcqReturnFalse
        /\ UNCHANGED <<acqResult, imgIdx, serial, camStreaming>>
     \/ /\ \E op \in {"Set:AcquisitionMode", "BeginAcquisition"} :
             /\ op = "Set:AcquisitionMode" => pc = "acquire"
             /\ Raised(Written(<<"Set:AcquisitionMode">>, IF op = "BeginAcquisition" THEN 1 ELSE 0),
                       op, camIdx)
        /\ AcqExceptBeforeLoop
        /\ acqResult' = TRUE
        /\ UNCHANGED <<imgIdx, serial, camStreaming>>
     \/ /\ script \notin {"SaveToAvi", "ImageEvents"}
        /\ Raised({"Set:AcquisitionMode", "BeginAcquisition"}, "DeviceSerialNumber", camIdx)
        /\ camStreaming' = [camStreaming EXCEPT ![camIdx] = TRUE]
        /\ AcqReturn(FALSE)
        /\ acqResult' = TRUE
        /\ UNCHANGED <<imgIdx, serial>>
     \/ /\ Called({"Set:AcquisitionMode", "BeginAcquisition"}, "BeginAcquisition", camIdx)
        /\ camStreaming' = [camStreaming EXCEPT ![camIdx] = TRUE]
        /\ acqResult' = TRUE
        /\ imgIdx' = 0
        /\ serial' \in SerialValues(script)
        /\ Goto(LoopHead(script))
        /\ UNCHANGED <<acqRet, rscResult>>
  /\ UNCHANGED <<envVars, imgComplete, figBound, camInit, unreleased, releaseCount, extVars, ifaceVars, obsVars, unitVars>>

\* ImageChannelStatistics, acquire_and_display_images up to BeginAcquisition:
\* AcquisitionMode Continuous, PixelFormat Mono8; "return False" when a node or
\* an entry is not accessible.
acquire_and_display_images_PixelFormat ==
  /\ pc = "acquire"
  /\ script = "ImageChannelStatistics"
  /\ \/ /\ Called({"Set:AcquisitionMode", "Set:PixelFormat"}, "Set:PixelFormat", camIdx)
        /\ Goto("acquire_begin")
        /\ UNCHANGED <<acqRet, rscResult>>
     \/ /\ \E k \in 0 .. 1 :
             Called(Written(<<"Set:AcquisitionMode">>, k), LastOf(<<"Set:AcquisitionMode">>, k), camIdx)
        /\ AcqReturn(FALSE)
     \/ /\ \/ Raised({}, "Set:AcquisitionMode", camIdx)
           \/ Raised({"Set:AcquisitionMode"}, "Set:PixelFormat", camIdx)
        /\ AcqReturn(FALSE)
  /\ UNCHANGED <<envVars, acqResult, imgIdx, imgComplete, serial, figBound, sdkVars, extVars, ifaceVars, obsVars, unitVars>>

\* "result &= grab_next_image_by_trigger(...)": executes TriggerSoftware; the
\* function returns False when the command node is not writable or the call raises.
grab_next_image_by_trigger ==
  /\ pc = "acq_trigger"
  /\ \/ /\ Called({"TriggerSoftware.Execute"}, "TriggerSoftware.Execute", camIdx)
        /\ UNCHANGED acqResult
     \/ /\ Called({}, "none", camIdx)
        /\ acqResult' = FALSE
     \/ /\ Raised({}, "TriggerSoftware.Execute", camIdx)
        /\ acqResult' = FALSE
  /\ Goto("acq_get")
  /\ UNCHANGED <<envVars, rscResult, imgIdx, imgComplete, serial, acqRet, figBound, sdkVars, extVars, ifaceVars, obsVars, unitVars>>

\* image_result = cam.GetNextImage()
acquire_images_GetNextImage ==
  /\ pc = "acq_get"
  /\ \/ /\ Called({"GetNextImage"}, "GetNextImage", camIdx)
        /\ unreleased' = [unreleased EXCEPT ![camIdx] = @ + 1]
        /\ imgComplete' \in BOOLEAN
        /\ Goto("acq_image")
        /\ UNCHANGED <<acqResult, imgIdx, acqRet, rscResult>>
     \/ /\ Raised({}, "GetNextImage", camIdx)
        /\ LoopExcept
        /\ UNCHANGED <<unreleased, imgComplete>>
  /\ getCalls' = getCalls + 1
  /\ UNCHANGED <<envVars, serial, figBound, camInit, camStreaming, releaseCount, extVars, ifaceVars,
                 saved, files, overwritten, unitVars>>

\* The filename of frame i: "<Example>-%s-%d.jpg" % (device_serial_number, i),
\* or "<Example>-%d.jpg" % i when the serial number is empty.  A camera's serial
\* number is its own; the example's name is the same for all files of a run.
Filename(sn, c, i) == <<IF sn = "sn" THEN c ELSE NoCam, i>>

\* image_converted.Save(filename) returned.  SaveToAvi appends the image to a
\* list instead.
Saves(name, i) ==
  IF script = "SaveToAvi"
    THEN UNCHANGED <<saved, files, overwritten>>
    ELSE /\ saved' = saved \cup {i}
         /\ IF keepFiles
              THEN /\ files' = files \cup {name}
                   /\ overwritten' = (overwritten \/ name \in files)
              ELSE UNCHANGED <<files, overwritten>>

\* The rest of the loop body: report an incomplete image, or convert and save
\* a complete one; release the image.
acquire_images_Save ==
  /\ pc = "acq_image"
  /\ script # "ImageChannelStatistics"
  /\ IF imgComplete
       THEN \/ /\ ~(script = "DeviceEvents" /\ serial = "unbound")
               /\ Called({"Convert", "Save", "Release"}, "Release", camIdx)
               /\ unreleased' = [unreleased EXCEPT ![camIdx] = @ - 1]
               /\ Saves(Filename(serial, camIdx, imgIdx), imgIdx)
               /\ NextIteration
               /\ UNCHANGED acqResult
            \/ /\ script = "DeviceEvents" /\ serial = "unbound"
               /\ Called({"Convert"}, "Convert", camIdx)
               /\ PyCrash("UnboundLocalError")
               /\ UNCHANGED <<acqResult, imgIdx, acqRet, rscResult, unreleased>>
               /\ UNCHANGED <<saved, files, overwritten>>
            \/ /\ \E op \in {"Convert", "Save"} :
                    /\ op = "Save" => ~(script = "DeviceEvents" /\ serial = "unbound")
                    /\ op = "Save" => script # "SaveToAvi"
                    /\ Raised({}, op, camIdx)
               /\ LoopExcept
               /\ UNCHANGED <<unreleased, saved, files, overwritten>>
            \/ /\ ~(script = "DeviceEvents" /\ serial = "unbound")
               /\ Raised({"Convert", "Save"}, "Release", camIdx)
               /\ Saves(Filename(serial, camIdx, imgIdx), imgIdx)
               /\ LoopExcept
               /\ unreleased' = [unreleased EXCEPT ![camIdx] = @ - 1]
       ELSE /\ UNCHANGED <<saved, files, overwritten>>
            /\ \/ /\ script \in ReleaseInElse
                  /\ Called({"GetImageStatus"}, "GetImageStatus", camIdx)
                  /\ NextIteration
                  /\ UNCHANGED <<acqResult, unreleased>>
               \/ /\ script \notin ReleaseInElse
                  /\ Called({"GetImageStatus", "Release"}, "Release", camIdx)
                  /\ unreleased' = [unreleased EXCEPT ![camIdx] = @ - 1]
                  /\ NextIteration
                  /\ UNCHANGED acqResult
               \/ /\ Raised({}, "GetImageStatus", camIdx)
                  /\ LoopExcept
                  /\ UNCHANGED unreleased
               \/ /\ script \notin ReleaseInElse
                  /\ Raised({"GetImageStatus"}, "Release", camIdx)
                  /\ LoopExcept
                  /\ unreleased' = [unreleased EXCEPT ![camIdx] = @ - 1]
  /\ UNCHANGED <<envVars, imgComplete, serial, figBound, camInit, camStreaming, releaseCount, extVars, ifaceVars,
                 getCalls, unitVars>>

\* ImageChannelStatistics, the rest of the loop body: "fig = plt.figure(1)" for
\* a complete image only; the statistics are computed and "fig.savefig(filename)"
\* is executed for every image; an SDK exception is re-raised to the outer
\* except clause, which returns False; image_result.Release() ends the body.
acquire_and_display_images_Save ==
  /\ pc = "acq_image"
  /\ script = "ImageChannelStatistics"
  /\ \/ /\ imgComplete \/ figBound
        /\ Called({"CalculateChannelStatistics", "Release"}, "Release", camIdx)
        /\ unreleased' = [unreleased EXCEPT ![camIdx] = @ - 1]
        /\ figBound' = TRUE
        /\ NextIteration
     \/ /\ imgComplete \/ figBound
        /\ Raised({"CalculateChannelStatistics"}, "Release", camIdx)
        /\ unreleased' = [unreleased EXCEPT ![camIdx] = @ - 1]
        /\ figBound' = TRUE
        /\ AcqReturn(FALSE)
        /\ UNCHANGED imgIdx
     \/ /\ ~imgComplete /\ ~figBound
        /\ Called({"CalculateChannelStatistics"}, "CalculateChannelStatistics", camIdx)
        /\ PyCrash("UnboundLocalError")
        /\ UNCHANGED <<imgIdx, acqRet, rscResult, unreleased, figBound>>
     \/ /\ \E op \in {"GetImageStatus", "CalculateChannelStatistics"} :
             /\ op = "GetImageStatus" => ~imgComplete
             /\ Raised({}, op, camIdx)
        /\ figBound' = (figBound \/ imgComplete)
        /\ AcqReturn(FALSE)
        /\ UNCHANGED <<imgIdx, unreleased>>
  /\ UNCHANGED <<envVars, acqResult, imgComplete, serial, camInit, camStreaming, releaseCount, extVars, ifaceVars, obsVars, unitVars>>

\* wait_for_images without its loop: it returns whatever the count is.
wait_for_images_NoPolling ==
  /\ pc = "wait"
  /\ Goto("acq_end")
  /\ NoHist
  /\ UNCHANGED <<envVars, locVars, sdkVars, extVars, ifaceVars, obsVars, unitVars>>

\* ImageEvents, wait_for_images: "while image_event_handler.get_image_count() <
\* image_event_handler.get_max_images():" ...
wait_for_images ==
  /\ pc = "wait"
  /\ Goto(IF image_count < NUM_IMAGES THEN "sleep" ELSE "acq_end")
  /\ NoHist
  /\ UNCHANGED <<envVars, locVars, sdkVars, extVars, ifaceVars, obsVars, unitVars>>

\* ... "sleep(SLEEP_DURATION / 1000.0)"
sleep ==
  /\ pc = "sleep"
  /\ Goto("wait")
  /\ NoHist
  /\ UNCHANGED <<envVars, locVars, sdkVars, extVars, ifaceVars, obsVars, unitVars>>

\* The guard of OnImageEvent with "<=" in place of "<".
AtMostNumImages(n) == n <= NUM_IMAGES

\* "if self._image_count < self._NUM_IMAGES:"
BelowNumImages(n) == n < NUM_IMAGES

\* ImageEventHandler.OnImageEvent(image), called on the SDK's thread for every
\* image of a camera that is acquiring and has the handler registered: below
\* _NUM_IMAGES, a complete image is converted and saved and _image_count
\* incremented.  The handler has no except clause: when Convert or Save raises,
\* or _device_serial_number was never set, the increment is not reached.
OnImageEvent ==
  /\ script = "ImageEvents"
  /\ camIdx \in Cams
  /\ camStreaming[camIdx] /\ camEvents[camIdx]
  /\ BelowNumImages(image_count)
  /\ \E complete \in BOOLEAN :
       \/ /\ complete /\ serial # "unbound"
          /\ Saves(Filename(serial, camIdx, image_count), image_count)
          /\ image_count' = image_count + 1
          /\ NoHist
       \/ /\ complete
          /\ \E op \in {"Convert", "Save"} :
               /\ op = "Save" => serial # "unbound"
               /\ faults < MaxFaults
               /\ faults' = faults + 1
               /\ events' = events \cup {<<"callback", camIdx, "raised">>}
               /\ UNCHANGED lastCall
          /\ UNCHANGED <<image_count, saved, files, overwritten>>
       \/ /\ ~complete
          /\ UNCHANGED <<image_count, saved, files, overwritten>>
          /\ NoHist
  /\ UNCHANGED <<envVars, ctlVars, locVars, sdkVars, camEvents, nodeCallbacks, ifaceVars,
                 getCalls, unitVars>>

\* configure_image_events(cam): "image_event_handler = ImageEventHandler(cam)"
\* (the constructor reads the serial number and sets _image_count = 0),
\* cam.RegisterEvent(image_event_handler); "return result, image_event_handler".
\* run_single_camera: "err, image_event_handler = configure_image_events(cam);
\* if not err: return err"
configure_image_events ==
  /\ pc = "configure"
  /\ script = "ImageEvents"
  /\ \/ /\ Called({"RegisterEvent"}, "RegisterEvent", camIdx)
        /\ camEvents' = [camEvents EXCEPT ![camIdx] = TRUE]
        /\ serial' \in {"unbound", "sn"}
        /\ image_count' = 0
        /\ Goto("acquire")
     \/ /\ Raised({}, "RegisterEvent", camIdx)
        /\ serial' \in {"unbound", "sn"}
        /\ image_count' = 0
        /\ RscReturn(FALSE)
        /\ UNCHANGED camEvents
     \* the constructor raises: image_event_handler is not bound
     \/ /\ Raised({}, "DeviceSerialNumber", camIdx)
        /\ PyCrash("UnboundLocalError")
        /\ UNCHANGED <<camEvents, serial, image_count>>
  /\ UNCHANGED <<envVars, rscResult, acqResult, imgIdx, imgComplete, acqRet, figBound, sdkVars,
                 nodeCallbacks, ifaceVars, obsVars, unitVars>>

\* "result &= reset_image_events(cam, image_event_handler)":
\* cam.UnregisterEvent(image_event_handler)
reset_image_events ==
  /\ pc = "reset"
  /\ script = "ImageEvents"
  /\ \/ /\ Called({"UnregisterEvent"}, "UnregisterEvent", camIdx)
        /\ camEvents' = [camEvents EXCEPT ![camIdx] = FALSE]
        /\ UNCHANGED rscResult
     \/ /\ Raised({}, "UnregisterEvent", camIdx)
        /\ rscResult' = FALSE
        /\ UNCHANGED camEvents
  /\ Goto("DeInit")
  /\ UNCHANGED <<envVars, acqResult, imgIdx, imgComplete, serial, acqRet, figBound, sdkVars,
                 nodeCallbacks, image_count, ifaceVars, obsVars, unitVars>>

\* NodeMapInfo, run_single_camera: "result &= print_category_node_and_all_features(
\* nodemap.GetNode('Root'), level)" for the two transport layer nodemaps before
\* cam.Init() and for the GenICam nodemap after it.  The function catches the
\* SDK exception and returns False; retrieving a nodemap or its root node is
\* inside run_single_camera's try, whose except clause returns False.
print_category_node_and_all_features ==
  /\ pc \in {"print_tl", "print_app"}
  /\ \/ /\ Called({"GetNode"}, "GetNode", camIdx)
        /\ UNCHANGED rscResult
        /\ Goto(IF pc = "print_tl" THEN "Init" ELSE "DeInit")
     \/ /\ Raised({"GetNode"}, "GetFeatures", camIdx)
        /\ rscResult' = FALSE
        /\ Goto(IF pc = "print_tl" THEN "Init" ELSE "DeInit")
     \/ /\ Raised({}, "GetNode", camIdx)
        /\ rscResult' = FALSE
        /\ RscReturn(FALSE)
  /\ UNCHANGED <<envVars, acqResult, imgIdx, imgComplete, serial, acqRet, figBound, sdkVars, extVars, ifaceVars, obsVars, unitVars>>

\* cam.EndAcquisition() after the loop; return result
acquire_images_EndAcquisition ==
  /\ pc = "acq_end"
  /\ \/ /\ Called({"EndAcquisition"}, "EndAcquisition", camIdx)
        /\ camStreaming' = [camStreaming EXCEPT ![camIdx] = FALSE]
        /\ AcqReturn(acqResult)
     \/ /\ Raised({}, "EndAcquisition", camIdx)
        /\ AcqReturn(FALSE)
        /\ UNCHANGED camStreaming
  /\ UNCHANGED <<envVars, acqResult, imgIdx, imgComplete, serial, figBound, camInit, unreleased, releaseCount, extVars, ifaceVars, obsVars, unitVars>>

\* ------------------------------------------------------- reset, DeInit
\* "result &= reset_trigger(nodemap)" / "result &= reset_exposure(cam)": one
\* node write; False when the node is not accessible or the write raises.
ResetWrite(s) == IF s \in TriggerScripts THEN "Set:TriggerMode" ELSE "Set:ExposureAuto"

reset_trigger ==
  /\ pc = "reset"
  /\ script \in TriggerScripts \cup {"Exposure_QuickSpin"}
  /\ \/ /\ Called({ResetWrite(script)}, ResetWrite(script), camIdx)
        /\ UNCHANGED rscResult
     \/ /\ Called({}, "none", camIdx)
        /\ rscResult' = FALSE
     \/ /\ Raised({}, ResetWrite(script), camIdx)
        /\ rscResult' = FALSE
  /\ Goto("DeInit")
  /\ UNCHANGED <<envVars, acqResult, imgIdx, imgComplete, serial, acqRet, figBound, sdkVars, extVars, ifaceVars, obsVars, unitVars>>

\* cam.DeInit(); return result   (NodeMapInfo: "return True")
run_single_camera_DeInit ==
  /\ pc = "DeInit"
  /\ \/ /\ Called({"DeInit"}, "DeInit", camIdx)
        /\ camInit' = [camInit EXCEPT ![camIdx] = FALSE]
        /\ RscReturn(IF script = "NodeMapInfo" THEN TRUE ELSE rscResult)
     \/ /\ Raised({}, "DeInit", camIdx)
        /\ RscReturn(FALSE)
        /\ UNCHANGED camInit
  /\ UNCHANGED <<envVars, locVars, camStreaming, unreleased, releaseCount, extVars, ifaceVars, obsVars, unitVars>>

Next ==
  \/ main_GetCameras
  \/ main_no_cameras_Clear
  \/ main_no_cameras_IfaceClear
  \/ main_IfaceClear
  \/ Enumeration_main
  \/ Enumeration_query_interface
  \/ NodeMapInfo_QuickSpin_main
  \/ NodeMapInfo_QuickSpin_Init
  \/ NodeMapInfo_QuickSpin_DeInit
  \/ EnumerationEvents_main
  \/ EnumerationEvents_RegisterEvent
  \/ EnumerationEvents_UnregisterEvent
  \/ EnumerationEvents_UnregisterInterfaceEvent
  \/ take_a_photo
  \/ Logging_main
  \/ Logging_UnregisterLoggingEvent
  \/ main_no_cameras_ReleaseInstance
  \/ main_loop
  \/ main_Clear
  \/ main_ReleaseInstance
  \/ print_device_info
  \/ run_single_camera_Init
  \/ configure_trigger
  \/ configure_custom_image_settings
  \/ configure_exposure
  \/ acquire_images_BeginAcquisition
  \/ grab_next_image_by_trigger
  \/ acquire_images_GetNextImage
  \/ acquire_images_Save
  \/ acquire_images_EndAcquisition
  \/ reset_trigger
  \/ configure_device_events
  \/ reset_device_events
  \/ configure_callbacks
  \/ change_height_and_gain
  \/ reset_callbacks
  \/ save_list_to_avi
  \/ acquire_and_display_images_PixelFormat
  \/ acquire_and_display_images_Save
  \/ configure_image_events
  \/ wait_for_images
  \/ sleep
  \/ OnImageEvent
  \/ reset_image_events
  \/ print_category_node_and_all_features
  \/ run_single_camera_DeInit

Spec == Init /\ [][Next]_vars

\* The script's thread keeps running, and the camera keeps delivering image
\* events to the registered handler while it is acquiring: a callback that can
\* do something (save an image or fail in the SDK) is eventually run.
Fairness == WF_vars(Next) /\ WF_vars(OnImageEvent)
SpecFair == Init /\ [][Next]_vars /\ Fairness

\* The same runs with the filenames of the Save() calls recorded.
InitFiles == InitProgram /\ UnitsIdle /\ keepFiles = TRUE
SpecFiles == InitFiles /\ [][Next]_vars

\* ------------------------------------- the two configure_custom_image_settings
\* The nodes that pass the function's check before the write.
\* ImageFormatControl: "if PySpin.IsAvailable(node) and PySpin.IsWritable(node)"
\* (PixelFormat: and the Mono8 entry is available and readable).
\* ImageFormatControl_QuickSpin: "if cam.X.GetAccessMode() == PySpin.RW", and for
\* Width and Height "... and cam.X.GetInc() != 0 and cam.X.GetMax != 0", where
\* cam.X.GetMax is the bound method, never equal to 0.
PassedCheck(s, access, inc) ==
  [j \in FormatNodes |->
     access[j] /\ (s = "ImageFormatControl_QuickSpin" /\ j \in IncNodes => inc[j])]

\* The node writes of one call, in the order of the function's text.
WriteSeq(p) ==
  LET idx == SelectSeq(<<1, 2, 3, 4, 5>>, LAMBDA j : p[j])
  IN [k \in 1 .. Len(idx) |-> FormatWrites[idx[k]]]

\* configure_custom_image_settings of example s is called on the camera whose
\* nodes have the access modes fmtAccess and the increments fmtInc.
custom_image_settings(s) ==
  /\ fmtRet[s] = "none"
  /\ fmtWrites' = [fmtWrites EXCEPT ![s] = WriteSeq(PassedCheck(s, fmtAccess, fmtInc))]
  /\ fmtRet' = [fmtRet EXCEPT ![s] = BoolStr(FormatResult(s, PassedCheck(s, fmtAccess, fmtInc)))]
  /\ UNCHANGED <<envVars, ctlVars, locVars, sdkVars, histVars, extVars, ifaceVars, obsVars,
                 fmtAccess, fmtInc, devVars>>

\* One camera, any access modes and increments, neither function called yet.
InitFormat ==
  /\ InitProgram
  /\ keepFiles = FALSE
  /\ script \in FormatScripts
  /\ numCameras = 1
  /\ fmtAccess \in [FormatNodes -> BOOLEAN]
  /\ fmtInc \in [IncNodes -> BOOLEAN]
  /\ NotConfigured
  /\ HandlerIdle

NextFormat == \E s \in FormatScripts : custom_image_settings(s)
SpecFormat == InitFormat /\ [][NextFormat]_vars

\* ------------------------------------------------------ DeviceEventHandler
\* Names of device events: the one the example constructs its handler for and
\* two others a camera can raise.
EventNames == {"EventExposureEnd", "EventAcquisitionStart", "EventError"}

\* A handler that counts every event.
ConcernsAny(eventname, name) == TRUE

\* "if eventname == self.event_name:"
Concerns(eventname, name) == eventname = name

\* DeviceEventHandler.OnDeviceEvent(eventname): "self.count += 1" for the
\* handler's own event, a printed line for any other.
OnDeviceEvent(eventname) ==
  /\ event_name # "none"
  /\ Len(delivered) < MaxDeliveries
  /\ count' = IF Concerns(eventname, event_name) THEN count + 1 ELSE count
  /\ delivered' = Append(delivered, eventname)
  /\ UNCHANGED <<envVars, ctlVars, locVars, sdkVars, histVars, extVars, ifaceVars, obsVars,
                 fmtVars, event_name>>

\* DeviceEventHandler.__init__(eventname): "self.event_name = eventname;
\* self.count = 0", for any event name.
InitDevice ==
  /\ InitProgram
  /\ keepFiles = FALSE
  /\ script = "DeviceEvents"
  /\ numCameras = 1
  /\ FormatIdle
  /\ event_name \in EventNames
  /\ count = 0
  /\ delivered = <<>>

NextDevice == \E eventname \in EventNames : OnDeviceEvent(eventname)
SpecDevice == InitDevice /\ [][NextDevice]_vars

\* ------------------------------------------------------------ properties
\* An SDK call made on camera c inside run_single_camera raised.
RaisedIn(c) == \E e \in events : e[2] = c /\ e[3] = "raised"

\* The SDK call op was made on camera c (or, with NoCam, on the system or a list).
Made(op, c) == \E o \in {"ok", "raised"} : <<op, c, o>> \in events

\* main has ended, by returning or by an exception nothing caught.
Ended == pc \in {"done", "crashed"}

\* C1: in every example that has run_single_camera, in a run in which exactly
\* one SDK call raised and that call was made inside run_single_camera (on
\* camera c), no exception leaves run_single_camera (main is not aborted),
\* run_single_camera does not return True for camera c, and main ends only
\* after cam_list.Clear() and then system.ReleaseInstance() were called.
C1_SingleFaultHandled ==
  (script \in CameraLoopScripts /\ faults = 1) =>
    \A c \in Cams :
      RaisedIn(c) =>
        /\ pc # "crashed"
        /\ rscRets[c] # "True"
        /\ lastCall.op = "ReleaseInstance" => Made("CamList.Clear", NoCam)
        /\ pc = "done" => Made("CamList.Clear", NoCam) /\ releaseCount > 0

\* C2: in DeviceEvents, in a run in which no SDK call raised (so that a handler
\* is registered on a camera exactly when RegisterEvent was executed for it and
\* UnregisterEvent was not), no camera has the device event handler registered
\* when system.ReleaseInstance() is called.
C2_UnregisteredBeforeRelease ==
  (script = "DeviceEvents" /\ faults = 0 /\ lastCall.op = "ReleaseInstance") =>
    \A c \in Cams : ~camEvents[c]

\* C3: in NodeMapCallback, when system.ReleaseInstance() is called, every node
\* callback that was registered has had DeregisterNodeCallback called on it.
C3_DeregisteredBeforeRelease ==
  (script = "NodeMapCallback" /\ lastCall.op = "ReleaseInstance") =>
    \A c \in Cams : nodeCallbacks[c] = {}

\* No event handler is registered on the system or on an interface.
NoHandlerRegistered ==
  /\ ~sysHandler
  /\ \A i \in Ifaces : ifaceHandlers[i] = NoHandler

\* C4: in EnumerationEvents.main, for every number of detected interfaces, in a
\* run in which no SDK call raised: no handler is registered on the system or
\* on an interface when the interface list is cleared, when
\* system.ReleaseInstance() is called, and when main has ended (every handler
\* that was registered is unregistered, interface i with the handler that was
\* registered on it).
C4_HandlersUnregistered ==
  (script = "EnumerationEvents" /\ faults = 0
     /\ (Ended \/ lastCall.op \in {"IfaceList.Clear", "ReleaseInstance"})) =>
    NoHandlerRegistered

\* The examples that acquire images.
Acquiring == AcqScripts \cup {"ImageEvents", "take_a_photo"}

\* The writes of the image-format settings, and all calls that write a GenICam
\* node (TriggerSoftware.Execute writes a command node).
FormatOps == {FormatWrites[j] : j \in 1 .. 5}
NodeWriteOps ==
  FormatOps
    \cup {"Set:TriggerMode", "Set:TriggerSource", "Set:ExposureAuto", "Set:ExposureTime",
          "Set:AcquisitionMode", "Set:EventSelector", "Set:EventNotification",
          "TriggerSoftware.Execute"}

\* C5: in every example that acquires images, every call is made in its place
\* of the order Init -> configuration -> BeginAcquisition -> GetNextImage* ->
\* EndAcquisition -> DeInit of its camera: GetNextImage only while the camera
\* is acquiring (after its BeginAcquisition and before its EndAcquisition),
\* an image-format setting only on an initialised camera on which
\* BeginAcquisition was not called, no node write on a camera that is not
\* initialised, BeginAcquisition only on an initialised camera that is not
\* acquiring, EndAcquisition only on an initialised camera that is acquiring,
\* DeInit only on an initialised camera.
C5_CallOrder ==
  script \in Acquiring =>
    /\ lastCall.op = "GetNextImage" => lastCall.init /\ lastCall.streaming
    /\ lastCall.op \in FormatOps => lastCall.init /\ ~lastCall.begun
    /\ lastCall.op \in NodeWriteOps => lastCall.init
    /\ lastCall.op = "BeginAcquisition" => lastCall.init /\ ~lastCall.streaming
    /\ lastCall.op = "EndAcquisition" => lastCall.init /\ lastCall.streaming
    /\ lastCall.op = "DeInit" => lastCall.init

\* C5 witness: ImageFormatControl has gone through the whole sequence for a
\* camera and is calling DeInit on it.
C5_Witness ==
  /\ script \in FormatScripts
  /\ lastCall.op = "DeInit"
  /\ \A op \in {"Init", "BeginAcquisition", "GetNextImage", "EndAcquisition"} :
       <<op, lastCall.cam, "ok">> \in events

\* The scripts that define a function acquire_images.
HasAcquireImages == (AcqScripts \ {"ImageChannelStatistics"}) \cup {"ImageEvents"}

\* C6: in every acquire_images, when acquire_images has returned and
\* BeginAcquisition had succeeded on the camera, EndAcquisition was called on it.
C6_EndAcquisitionCalled ==
  (script \in HasAcquireImages /\ acqRet # "none") =>
    \A c \in Cams : <<"BeginAcquisition", c, "ok">> \in events => Made("EndAcquisition", c)

\* C7: at no time does a camera have more than one image that was retrieved
\* with GetNextImage and on which Release() was not called.
C7_AtMostOneUnreleased == \A c \in Cams : unreleased[c] <= 1

\* C8: in every run_single_camera, when run_single_camera has returned for a
\* camera on which Init had succeeded, DeInit was called on it.
C8_DeInitCalled ==
  script \in CameraLoopScripts =>
    \A c \in Cams :
      (rscRets[c] # "none" /\ <<"Init", c, "ok">> \in events) => Made("DeInit", c)

\* The scripts that define main.
HasMain == Scripts \ {"take_a_photo"}

\* C9: in every main, when system.ReleaseInstance() is called the camera list
\* (and the interface list, where main retrieves one) was cleared, it is called
\* at most once and exactly once when main returns, and no call is made on the
\* system, a list, an interface or a camera after it.
C9_ReleaseInstanceLast ==
  script \in HasMain =>
    /\ lastCall.op = "ReleaseInstance" =>
         /\ Made("CamList.Clear", NoCam)
         /\ script \in IfaceScripts => Made("IfaceList.Clear", NoCam)
    /\ releaseCount <= 1
    /\ pc = "done" => releaseCount = 1
    /\ ~lastCall.released

\* C10: with two or more detected cameras, main returns True only if
\* run_single_camera returned True for every camera.
C10_MainResult ==
  (script \in CameraLoopScripts /\ numCameras >= 2 /\ mainRet = "True") =>
    \A c \in 0 .. (numCameras - 1) : rscRets[c] = "True"
\* ------------------------------------------------------------ saved files
\* acquire_images of the current camera returned True.
AcquireReturnedTrue ==
  script \in {"Trigger", "ImageFormatControl", "DeviceEvents"} /\ acqRet = "True"

\* C11: whenever acquire_images of Trigger, ImageFormatControl or DeviceEvents has
\* returned True, the image files saved during that call are exactly those of
\* the frame indices 0 .. NUM_IMAGES - 1.
C11_AllImagesSaved == AcquireReturnedTrue => saved = 0 .. (NUM_IMAGES - 1)

\* ------------------------------------------------------ ImageEventHandler
\* A step of the handler's counter: an increment by one that goes with the
\* saving of the frame of that number, or the construction of the next
\* camera's handler, whose counter starts at 0.
CountStep ==
  \/ /\ image_count' = image_count + 1
     /\ image_count \notin saved
     /\ saved' = saved \cup {image_count}
  \/ /\ pc = "configure"
     /\ image_count' = 0

\* C12: _image_count is between 0 and _NUM_IMAGES in every state; it is 0 when
\* the handler is constructed; every change of it is an increment by exactly
\* one together with the saving of one complete image, and the handler saves
\* no image without incrementing it (so it never decreases and an event that
\* saves nothing leaves it unchanged).
C12_ImageCountBounded ==
  /\ [](image_count \in 0 .. NUM_IMAGES)
  /\ [][image_count' # image_count => CountStep]_vars
  /\ [][script = "ImageEvents" /\ saved' # saved /\ saved' # {}
          => image_count' = image_count + 1]_vars

\* The handler has saved _NUM_IMAGES images.
C12_Witness ==
  script = "ImageEvents" /\ image_count = NUM_IMAGES /\ saved = 0 .. (NUM_IMAGES - 1)

\* -------------------------------------------------------- wait_for_images
\* wait_for_images has returned to acquire_images, or cam.EndAcquisition() was
\* called for the current camera.
WaitReturned ==
  /\ script = "ImageEvents"
  /\ pc = "acq_end" \/ Made("EndAcquisition", camIdx)

\* C13: in ImageEvents, whatever the interleaving of the polling loop with the
\* OnImageEvent callbacks, once wait_for_images has returned (and so whenever
\* cam.EndAcquisition() is called) get_image_count() equals get_max_images()
\* and the _NUM_IMAGES images have been saved.
C13_WaitReturnsAtMax ==
  WaitReturned => image_count = NUM_IMAGES /\ saved = 0 .. (NUM_IMAGES - 1)

\* cam.EndAcquisition() was called after callbacks interleaved with the polling.
C13_Witness ==
  /\ script = "ImageEvents"
  /\ lastCall.op = "EndAcquisition"
  /\ image_count = NUM_IMAGES

\* ------------------------------------------------------------- termination
\* The main thread of ImageEvents is in wait_for_images.
Waiting == script = "ImageEvents" /\ pc \in {"wait", "sleep"}

\* C14: in ImageEvents, under fair delivery of image events, a main thread that
\* has entered wait_for_images eventually leaves it and acquire_images returns.
C14_WaitTerminates == Waiting ~> (acqRet # "none")

\* --------------------------------------------------------------- filenames
\* C15: within one run of main over all detected cameras, no two Save calls
\* use the same filename.
C15_UniqueFilenames == ~overwritten

\* ------------------------------------------------ QuickSpin and the nodemap
\* Both configure_custom_image_settings functions have been called.
BothConfigured == \A s \in FormatScripts : fmtRet[s] # "none"

\* C16: for every combination of access modes of the five nodes, the two
\* configure_custom_image_settings functions perform the same sequence of node
\* writes and return the same boolean.
C16_SameWritesAndResult ==
  BothConfigured =>
    /\ fmtWrites["ImageFormatControl"] = fmtWrites["ImageFormatControl_QuickSpin"]
    /\ fmtRet["ImageFormatControl"] = fmtRet["ImageFormatControl_QuickSpin"]

\* ---------------------------------------------------------------- no retry
\* C17: an acquire_images loop makes at most NUM_IMAGES GetNextImage calls for a
\* camera, and its k-th call is made at loop index k - 1: no index is retrieved
\* twice, whether the retrieval before it failed, was incomplete or succeeded.
C17_NoRetry ==
  /\ [](getCalls <= NUM_IMAGES)
  /\ [][getCalls' = getCalls + 1 => getCalls = imgIdx]_vars

\* Frame 0 was not saved (its retrieval failed or the image was incomplete) and
\* the loop has gone on to retrieve frame 1.
C17_Witness ==
  /\ script \in {"DeviceEvents", "Exposure_QuickSpin"}
  /\ pc = "acq_image"
  /\ imgIdx = 1
  /\ getCalls = 2
  /\ 0 \notin saved

\* ------------------------------------------------------ device event count
\* The number of OnDeviceEvent calls so far whose event name is the handler's.
OwnEvents == Cardinality({i \in DOMAIN delivered : delivered[i] = event_name})

\* C18: after any sequence of OnDeviceEvent calls, count is the number of calls
\* whose event name equals event_name; no call changes event_name, and a call
\* with another event name leaves count unchanged.
C18_CountsOwnEvents ==
  /\ [](count = OwnEvents)
  /\ [][event_name' = event_name]_vars
  /\ [][delivered' # delivered /\ delivered'[Len(delivered')] # event_name
          => count' = count]_vars

\* The handler was called with its own event and with another one.
C18_Witness ==
  /\ event_name \in EventNames
  /\ count >= 1
  /\ count < Len(delivered)

====
